---- MODULE Spec2Model ----
(***************************************************************************)
(* Undirected weighted graphs of hmh-ex1: the adjacency-list and the       *)
(* adjacency-matrix representations of src/lib.rs and of src/main.rs, the  *)
(* trait's default get_edge_weight, and the builder fill_graph.            *)
(*                                                                         *)
(* The four representations are driven in lockstep by the same sequence of *)
(* calls: each is an independent object, and a representation whose call   *)
(* has panicked receives no further call.                                  *)
(***************************************************************************)
EXTENDS Integers, Sequences, FiniteSets, TLC

\* ---------------------------------------------------------------- bounds
\* A caller of the trait: nodes it adds, weights it uses, add_edge calls it makes.
MaxNodes == 3
MaxWeight == 2
MaxEdgeCalls == 2
\* An input of fill_graph: its node count, and the rows after its header.
MaxFillNodes == 2
MaxRows == 2

VARIABLES
    libAdj,     \* lib.rs GraphAdj  {next_node, node_edges: Map<Node, Vec<Edge>>}
    libMat,     \* lib.rs GraphMat  {node_count, links: Vec<Weight>}
    mainAdj,    \* main.rs GraphAdj {next_node, nodes: Set<Node>, node_edges: Set<Edge>}
    mainMat,    \* main.rs GraphMat {node_count, links: Vec<Weight>}
    panicked,   \* per representation: a call on it has panicked
    lastCall,   \* the call made last, with what add_node returned
    prevEdges,  \* edges() of each representation before the last call
    nodeCalls,  \* number of add_node calls made
    edgeCalls,  \* number of add_edge calls made
    added,      \* ordered pairs <<a, b>> of every add_edge call made
    input,      \* fill_graph: input_data, the rows
    pc,         \* fill_graph: position in the function
    edgeIdx,    \* fill_graph: rows of tail[..edge_count] already consumed
    fillErr,    \* fill_graph: which of its own panics ended it
    log         \* fill_graph: the calls it made on the graph, in order

vars == <<libAdj, libMat, mainAdj, mainMat, panicked, lastCall, prevEdges,
          nodeCalls, edgeCalls, added, input, pc, edgeIdx, fillErr, log>>

Reprs == {"libAdj", "libMat", "mainAdj", "mainMat"}

\* ------------------------------------------------------------- helpers
Min(S) == CHOOSE x \in S : \A y \in S : x <= y

\* Option<Weight>: None is the empty tuple, Some(w) the one-element tuple.
None == <<>>
Some(w) == <<w>>

\* A call's outcome: the graph it leaves, and whether it returned (ok) or panicked.
Ret(g, ok) == [g |-> g, ok |-> ok]

\* vec![0; n]
Zeros(n) == [i \in 1..n |-> 0]

\* ------------------------------------------------- lib.rs: GraphAdj
LibAdj_default == [next_node |-> 0, node_edges |-> <<>>]

\* values().flatten().copied().collect(): every edge of every node's Vec.
LibAdj_edges(g) ==
    UNION {{g.node_edges[n][i] : i \in 1..Len(g.node_edges[n])} : n \in DOMAIN g.node_edges}

\* add_node without self.next_node += 1.
LibAdj_add_node_NoIncrement(g) ==
    LET node == g.next_node
    IN  [g |-> [next_node |-> g.next_node,
                node_edges |-> [n \in DOMAIN g.node_edges \cup {node} |->
                                  IF n = node THEN <<>> ELSE g.node_edges[n]]],
         node |-> node]

\* Returns the node; the graph after the call is LibAdj_add_node(g).g.
LibAdj_add_node(g) ==
    LET node == g.next_node
    IN  [g |-> [next_node |-> g.next_node + 1,
                node_edges |-> [n \in DOMAIN g.node_edges \cup {node} |->
                                  IF n = node THEN <<>> ELSE g.node_edges[n]]],
         node |-> node]

LibAdj_node_count(g) == Cardinality(DOMAIN g.node_edges)

\* One iteration of add_edge's loop: find-or-push in a's Vec; panics when a is no key.
LibAdj_add_edge_iter(g, a, b, weight) ==
    IF a \notin DOMAIN g.node_edges THEN Ret(g, FALSE)
    ELSE LET a_edges == g.node_edges[a]
             found == {i \in 1..Len(a_edges) : a_edges[i][2] = b}
             new_edges == IF found # {}
                          THEN [a_edges EXCEPT ![Min(found)][3] = weight]
                          ELSE Append(a_edges, <<a, b, weight>>)
         IN  Ret([g EXCEPT !.node_edges[a] = new_edges], TRUE)

\* for (a, b) in [(a, b), (b, a)]: the second iteration runs on what the first left.
LibAdj_add_edge(g, a, b, weight) ==
    LET first == LibAdj_add_edge_iter(g, a, b, weight)
    IN  IF first.ok THEN LibAdj_add_edge_iter(first.g, b, a, weight) ELSE first

\* ------------------------------------------------- GraphMat (lib.rs and main.rs)
GraphMat_default == [node_count |-> 0, links |-> <<>>]

\* slice.chunks_mut(size): consecutive pieces of `size` elements, the last one shorter.
RECURSIVE Chunks(_, _)
Chunks(s, size) ==
    IF Len(s) = 0 THEN <<>>
    ELSE IF Len(s) <= size THEN <<s>>
    ELSE <<SubSeq(s, 1, size)>> \o Chunks(SubSeq(s, size + 1, Len(s)), size)

RECURSIVE Flatten(_)
Flatten(ss) == IF Len(ss) = 0 THEN <<>> ELSE Head(ss) \o Flatten(Tail(ss))

\* new_line[..node_count].copy_from_slice(old_line)
CopyPrefix(new_line, old_line) ==
    old_line \o SubSeq(new_line, Len(old_line) + 1, Len(new_line))

\* add_node copying the old links to the front of the new ones, not row by row.
GraphMat_add_node_FlatCopy(g) ==
    LET new_node_count == g.node_count + 1
        new_links == Zeros(new_node_count * new_node_count)
    IN  [g |-> [node_count |-> g.node_count + 1,
                links |-> CopyPrefix(new_links, g.links)],
         node |-> g.node_count]

\* add_node of lib.rs:84-110; main.rs:62-88 is the same text.
GraphMat_add_node(g) ==
    LET new_node == g.node_count
        new_node_count == g.node_count + 1
        new_links == Zeros(new_node_count * new_node_count)
        new_lines == Chunks(new_links, new_node_count)
        old_lines == IF g.node_count > 0 THEN Chunks(g.links, g.node_count) ELSE <<>>
        copied == [k \in 1..Len(new_lines) |->
                     IF k <= Len(old_lines)
                     THEN CopyPrefix(new_lines[k], old_lines[k])
                     ELSE new_lines[k]]
    IN  [g |-> [node_count |-> g.node_count + 1, links |-> Flatten(copied)],
         node |-> new_node]

GraphMat_node_count(g) == g.node_count

\* self.links[idx] = weight: panics when idx is out of bounds.
SetLink(g, idx, weight) ==
    IF idx >= Len(g.links) THEN Ret(g, FALSE)
    ELSE Ret([g EXCEPT !.links[idx + 1] = weight], TRUE)

\* add_edge writing links[a * node_count + b] only.
GraphMat_add_edge_OneWay(g, a, b, weight) ==
    SetLink(g, a * g.node_count + b, weight)

\* add_edge of lib.rs:140-148; main.rs:111-119 is the same text.
GraphMat_add_edge(g, a, b, weight) ==
    LET first == SetLink(g, a * g.node_count + b, weight)
    IN  IF first.ok THEN SetLink(first.g, b * g.node_count + a, weight) ELSE first

\* lib.rs GraphMat::edges: every non-zero cell i as (i % n, i / n, weight).
LibMat_edges(g) ==
    {<<(i - 1) % g.node_count, (i - 1) \div g.node_count, g.links[i]>> :
        i \in {j \in 1..Len(g.links) : g.links[j] > 0}}

\* main.rs GraphMat::edges: cells below the diagonal (x < y) are dropped.
MainMat_edges(g) ==
    {<<(i - 1) \div g.node_count, (i - 1) % g.node_count, g.links[i]>> :
        i \in {j \in 1..Len(g.links) :
                 /\ g.links[j] > 0
                 /\ ~((j - 1) % g.node_count < (j - 1) \div g.node_count)}}

\* lib.rs GraphMat::get_edge_weight: links.get(a * node_count + b), 0 read as None.
LibMat_get_edge_weight(g, a, b) ==
    LET idx == a * g.node_count + b
    IN  IF idx >= Len(g.links) THEN None
        ELSE IF g.links[idx + 1] = 0 THEN None ELSE Some(g.links[idx + 1])

\* ------------------------------------------------- main.rs: GraphAdj
MainAdj_default == [next_node |-> 0, nodes |-> {}, node_edges |-> {}]

MainAdj_edges(g) == g.node_edges

MainAdj_add_node(g) ==
    [g |-> [g EXCEPT !.nodes = g.nodes \cup {g.next_node},
                     !.next_node = g.next_node + 1],
     node |-> g.next_node]

\* BTreeSet::insert of the triple: no check of a or b, never panics.
MainAdj_add_edge(g, a, b, weight) ==
    Ret([g EXCEPT !.node_edges = g.node_edges \cup {<<a, b, weight>>}], TRUE)

\* ------------------------------------------------- lib.rs: trait Graph defaults
\* Edge tuples compare lexicographically: the BTreeSet iterates in that order.
EdgeLess(e, f) ==
    \/ e[1] < f[1]
    \/ e[1] = f[1] /\ e[2] < f[2]
    \/ e[1] = f[1] /\ e[2] = f[2] /\ e[3] < f[3]

\* Graph::get_edge_weight: the first edge of edges() with e.0 == a && e.1 == b.
Graph_get_edge_weight(edges, a, b) ==
    LET hits == {e \in edges : e[1] = a /\ e[2] = b}
    IN  IF hits = {} THEN None
        ELSE Some((CHOOSE e \in hits : \A f \in hits : f = e \/ EdgeLess(e, f))[3])

\* Graph::get_node_edges
Graph_get_node_edges(edges, a) == {e \in edges : e[1] = a \/ e[2] = a}

\* ------------------------------------------------- the calls, in lockstep
EdgesOf ==
    [libAdj |-> LibAdj_edges(libAdj), libMat |-> LibMat_edges(libMat),
     mainAdj |-> MainAdj_edges(mainAdj), mainMat |-> MainMat_edges(mainMat)]

NoPanic == [r \in Reprs |-> FALSE]

\* add_node on every representation still alive; add_node never panics.
DoAddNode ==
    LET la == LibAdj_add_node(libAdj)
        lm == GraphMat_add_node(libMat)
        ma == MainAdj_add_node(mainAdj)
        mm == GraphMat_add_node(mainMat)
    IN  /\ libAdj' = IF panicked.libAdj THEN libAdj ELSE la.g
        /\ libMat' = IF panicked.libMat THEN libMat ELSE lm.g
        /\ mainAdj' = IF panicked.mainAdj THEN mainAdj ELSE ma.g
        /\ mainMat' = IF panicked.mainMat THEN mainMat ELSE mm.g
        /\ lastCall' = [op |-> "add_node", a |-> 0, b |-> 0, w |-> 0,
                        ret |-> [libAdj |-> la.node, libMat |-> lm.node,
                                 mainAdj |-> ma.node, mainMat |-> mm.node]]
        /\ prevEdges' = EdgesOf
        /\ nodeCalls' = nodeCalls + 1
        /\ UNCHANGED <<panicked, edgeCalls, added>>

\* add_edge(a, b, weight) on every representation still alive.
DoAddEdge(a, b, weight) ==
    LET la == LibAdj_add_edge(libAdj, a, b, weight)
        lm == GraphMat_add_edge(libMat, a, b, weight)
        ma == MainAdj_add_edge(mainAdj, a, b, weight)
        mm == GraphMat_add_edge(mainMat, a, b, weight)
    IN  /\ libAdj' = IF panicked.libAdj THEN libAdj ELSE la.g
        /\ libMat' = IF panicked.libMat THEN libMat ELSE lm.g
        /\ mainAdj' = IF panicked.mainAdj THEN mainAdj ELSE ma.g
        /\ mainMat' = IF panicked.mainMat THEN mainMat ELSE mm.g
        /\ panicked' = [libAdj |-> panicked.libAdj \/ ~la.ok,
                        libMat |-> panicked.libMat \/ ~lm.ok,
                        mainAdj |-> panicked.mainAdj \/ ~ma.ok,
                        mainMat |-> panicked.mainMat \/ ~mm.ok]
        /\ lastCall' = [op |-> "add_edge", a |-> a, b |-> b, w |-> weight,
                        ret |-> [r \in Reprs |-> 0]]
        /\ prevEdges' = EdgesOf
        /\ edgeCalls' = edgeCalls + 1
        /\ added' = added \cup {<<a, b>>}
        /\ UNCHANGED nodeCalls

\* ------------------------------------------------- a caller of the Graph trait
NodeIds == 0..MaxNodes          \* MaxNodes itself is never a node
Weights == 1..MaxWeight

NoCall == [op |-> "none", a |-> 0, b |-> 0, w |-> 0, ret |-> [r \in Reprs |-> 0]]

GraphsInit ==
    /\ libAdj = LibAdj_default
    /\ libMat = GraphMat_default
    /\ mainAdj = MainAdj_default
    /\ mainMat = GraphMat_default
    /\ panicked = NoPanic
    /\ lastCall = NoCall
    /\ prevEdges = [r \in Reprs |-> {}]
    /\ nodeCalls = 0
    /\ edgeCalls = 0
    /\ added = {}

Init ==
    /\ GraphsInit
    /\ input = <<>>
    /\ pc = "api"
    /\ edgeIdx = 0
    /\ fillErr = "none"
    /\ log = <<>>

\* A panic aborts the calling process: it makes no further call.
Alive == \A r \in Reprs : ~panicked[r]

AddNodeCall ==
    /\ pc = "api"
    /\ Alive
    /\ nodeCalls < MaxNodes
    /\ DoAddNode
    /\ UNCHANGED <<input, pc, edgeIdx, fillErr, log>>

AddEdgeCall ==
    /\ pc = "api"
    /\ Alive
    /\ edgeCalls < MaxEdgeCalls
    /\ \E a \in NodeIds, b \in NodeIds, weight \in Weights : DoAddEdge(a, b, weight)
    /\ UNCHANGED <<input, pc, edgeIdx, fillErr, log>>

Next == AddNodeCall \/ AddEdgeCall

Spec == Init /\ [][Next]_vars

\* ------------------------------------------------- fill_graph
\* Rows as main() tokenizes them: a blank line is the empty row.
GoodRows ==
    {<<a, b, weight>> : a \in 1..MaxFillNodes, b \in 1..MaxFillNodes, weight \in Weights}
BadRows == {<<>>, <<1, 1>>, <<1, 1, 1, 1>>}
Rows == GoodRows \cup BadRows

GoodHeads == {<<n, e>> : n \in 0..MaxFillNodes, e \in 0..MaxRows}
BadHeads == {<<>>, <<1>>, <<1, 1, 1>>}

\* The inputs: no row at all, or a header row followed by up to MaxRows rows.
IsInput(rows) ==
    \/ rows = <<>>
    \/ \E h \in GoodHeads \cup BadHeads, n \in 0..MaxRows :
         \E t \in [1..n -> Rows] : rows = <<h>> \o t

head == input[1]
tail == Tail(input)
vertex_count == head[1]
edge_count == head[2]

InitFill ==
    /\ GraphsInit
    /\ IsInput(input)
    /\ pc = "start"
    /\ edgeIdx = 0
    /\ fillErr = "none"
    /\ log = <<>>

UnchangedGraphs ==
    UNCHANGED <<libAdj, libMat, mainAdj, mainMat, panicked, lastCall, prevEdges,
                nodeCalls, edgeCalls, added>>

\* split_first().expect(..), then let [vertex_count, edge_count] = head[..] else panic.
FillHead ==
    /\ pc = "start"
    /\ IF Len(input) = 0 THEN pc' = "panicked" /\ fillErr' = "empty"
       ELSE IF Len(head) # 2 THEN pc' = "panicked" /\ fillErr' = "header"
       ELSE pc' = "nodes" /\ fillErr' = fillErr
    /\ UnchangedGraphs
    /\ UNCHANGED <<input, edgeIdx, log>>

\* One iteration of for _ in 0..vertex_count.
FillAddNode ==
    /\ pc = "nodes"
    /\ nodeCalls < vertex_count
    /\ DoAddNode
    /\ log' = Append(log, <<"add_node">>)
    /\ UNCHANGED <<input, pc, edgeIdx, fillErr>>

\* &tail[..edge_count]: panics when the tail is shorter than edge_count.
FillSlice ==
    /\ pc = "nodes"
    /\ nodeCalls = vertex_count
    /\ IF edge_count > Len(tail) THEN pc' = "panicked" /\ fillErr' = "slice"
       ELSE pc' = "edges" /\ fillErr' = fillErr
    /\ UnchangedGraphs
    /\ UNCHANGED <<input, edgeIdx, log>>

\* The identifier of a row passed on as it is.
ZeroIndexed_AsGiven(x) == x

\* The 1-indexed identifier of a row as the node it names.
ZeroIndexed(x) == x - 1

\* One iteration of for edge_data in &tail[..edge_count].
FillAddEdge ==
    /\ pc = "edges"
    /\ edgeIdx < edge_count
    /\ LET edge_data == tail[edgeIdx + 1]
       IN  IF Len(edge_data) # 3
           THEN /\ pc' = "panicked" /\ fillErr' = "row"
                /\ UnchangedGraphs
                /\ UNCHANGED <<edgeIdx, log>>
           ELSE LET a == ZeroIndexed(edge_data[1])
                    b == ZeroIndexed(edge_data[2])
                    weight == edge_data[3]
                IN  /\ DoAddEdge(a, b, weight)
                    /\ log' = Append(log, <<"add_edge", a, b, weight>>)
                    /\ edgeIdx' = edgeIdx + 1
                    /\ UNCHANGED <<pc, fillErr>>
    /\ UNCHANGED input

\* The loop over tail[..edge_count] is over: fill_graph returns.
FillReturn ==
    /\ pc = "edges"
    /\ edgeIdx = edge_count
    /\ pc' = "done"
    /\ UnchangedGraphs
    /\ UNCHANGED <<input, edgeIdx, fillErr, log>>

NextFill == FillHead \/ FillAddNode \/ FillSlice \/ FillAddEdge \/ FillReturn

SpecFill == InitFill /\ [][NextFill]_vars

\* ------------------------------------------------- reading edges()
\* The nodes of the graph: the identifiers add_node has returned.
Nodes == 0..(nodeCalls - 1)

\* The edges of E between a and b, in either orientation.
Between(E, a, b) == {e \in E : {e[1], e[2]} = {a, b}}

\* E as (unordered pair, weight) entries.
Canon(E) == {<<{e[1], e[2]}, e[3]>> : e \in E}

\* The last call was add_edge on existing nodes.
ValidEdgeCall ==
    /\ lastCall.op = "add_edge"
    /\ lastCall.a \in Nodes
    /\ lastCall.b \in Nodes

\* ------------------------------------------------- C1
\* C1: in every representation, add_edge(a,b,w1) followed by add_edge(a,b,w2) on
\* existing nodes leaves exactly one edge between a and b in edges(), of weight w2.
C1_Upsert ==
    [][(/\ lastCall.op = "add_edge"
        /\ lastCall'.op = "add_edge"
        /\ edgeCalls' = edgeCalls + 1
        /\ lastCall'.a = lastCall.a
        /\ lastCall'.b = lastCall.b
        /\ lastCall.a \in Nodes
        /\ lastCall.b \in Nodes)
       => \A r \in Reprs :
            \E e \in EdgesOf[r]' :
                /\ Between(EdgesOf[r]', lastCall'.a, lastCall'.b) = {e}
                /\ e[3] = lastCall'.w]_vars

\* ------------------------------------------------- C2
\* C2: after add_node and add_edge calls on existing nodes, edges() of every
\* representation never holds both (a,b,w) and (b,a,w) for a # b, and holds an
\* edge for every pair that was added.
C2_EachPairOnce ==
    Alive =>
        \A r \in Reprs :
            /\ \A e \in EdgesOf[r] : e[1] # e[2] => <<e[2], e[1], e[3]>> \notin EdgesOf[r]
            /\ \A p \in added : Between(EdgesOf[r], p[1], p[2]) # {}

\* ------------------------------------------------- C3
\* The input is well formed: a header of two values, at least edge_count rows
\* after it, and each of the first edge_count rows three values naming nodes.
WellFormed ==
    /\ Len(input) >= 1
    /\ Len(head) = 2
    /\ edge_count <= Len(tail)
    /\ \A i \in 1..edge_count :
         /\ Len(tail[i]) = 3
         /\ tail[i][1] \in 1..vertex_count
         /\ tail[i][2] \in 1..vertex_count

\* C3: on a well-formed input, fill_graph on a GraphAdj and on a GraphMat leaves
\* edges() equal as sets of (unordered pair, weight), in main.rs and in lib.rs.
C3_CrossEquivalence ==
    (pc = "done" /\ WellFormed) =>
        /\ Canon(MainAdj_edges(mainAdj)) = Canon(MainMat_edges(mainMat))
        /\ Canon(LibAdj_edges(libAdj)) = Canon(LibMat_edges(libMat))

\* ------------------------------------------------- C4
\* C4: in lib.rs, right after add_edge(a,b,w) on existing nodes, get_edge_weight(a,b)
\* and get_edge_weight(b,a) are both Some(w), for GraphAdj and for GraphMat.
C4_Symmetry ==
    ValidEdgeCall =>
        /\ Graph_get_edge_weight(LibAdj_edges(libAdj), lastCall.a, lastCall.b)
             = Some(lastCall.w)
        /\ Graph_get_edge_weight(LibAdj_edges(libAdj), lastCall.b, lastCall.a)
             = Some(lastCall.w)
        /\ LibMat_get_edge_weight(libMat, lastCall.a, lastCall.b) = Some(lastCall.w)
        /\ LibMat_get_edge_weight(libMat, lastCall.b, lastCall.a) = Some(lastCall.w)

\* The edge between two distinct nodes has just been given another weight.
C4_Witness ==
    /\ ValidEdgeCall
    /\ lastCall.a # lastCall.b
    /\ nodeCalls >= 2
    /\ \E e \in Between(prevEdges.libAdj, lastCall.a, lastCall.b) : e[3] # lastCall.w
    /\ LibMat_get_edge_weight(libMat, lastCall.b, lastCall.a) = Some(lastCall.w)

\* ------------------------------------------------- C5
\* C5: in every representation the k-th add_node returns k-1, node_count() is the
\* number of add_node calls made, and the next identifier is that number too,
\* whatever add_edge calls were made in between.
C5_NodeCount ==
    /\ LibAdj_node_count(libAdj) = nodeCalls
    /\ libAdj.next_node = nodeCalls
    /\ GraphMat_node_count(libMat) = nodeCalls
    /\ GraphMat_node_count(mainMat) = nodeCalls
    /\ mainAdj.nodes = Nodes
    /\ mainAdj.next_node = nodeCalls
    /\ lastCall.op = "add_node" => \A r \in Reprs : lastCall.ret[r] = nodeCalls - 1

\* A second add_node, made after an add_edge.
C5_Witness ==
    /\ lastCall.op = "add_node"
    /\ nodeCalls >= 2
    /\ edgeCalls >= 1
    /\ \A r \in Reprs : lastCall.ret[r] = nodeCalls - 1

\* ------------------------------------------------- C6
\* C6: for lib.rs GraphMat, with no weight 0 ever added, get_edge_weight(a,b) is
\* None exactly when no add_edge(a,b,_) or add_edge(b,a,_) was made, for every a
\* and b, nodes of the graph or not.
C6_AbsentIffNeverAdded ==
    ~panicked.libMat =>
        \A a \in NodeIds, b \in NodeIds :
            (LibMat_get_edge_weight(libMat, a, b) = None)
                <=> (<<a, b>> \notin added /\ <<b, a>> \notin added)

\* ------------------------------------------------- C7
\* C7: in every representation, add_edge with a or b that no add_node returned
\* panics, and leaves no edge on a node that does not exist.
C7_MissingNodePanics ==
    (lastCall.op = "add_edge" /\ ~(lastCall.a \in Nodes /\ lastCall.b \in Nodes)) =>
        \A r \in Reprs :
            /\ panicked[r]
            /\ \A e \in EdgesOf[r] : e[1] \in Nodes /\ e[2] \in Nodes

\* ------------------------------------------------- C8
\* C8: when fill_graph panics (no row, bad header, bad edge row, too few rows) it
\* has made no add_edge call, and on no row or a bad header no add_node call either.
C8_NoPartialConstruction ==
    pc = "panicked" =>
        /\ \A i \in 1..Len(log) : log[i][1] # "add_edge"
        /\ fillErr \in {"empty", "header"} => log = <<>>

\* ------------------------------------------------- C9
\* The calls fill_graph is to make on a well-formed input.
ExpectedLog ==
    [i \in 1..(vertex_count + edge_count) |->
        IF i <= vertex_count THEN <<"add_node">>
        ELSE <<"add_edge", tail[i - vertex_count][1] - 1, tail[i - vertex_count][2] - 1,
               tail[i - vertex_count][3]>>]

\* C9: on a well-formed input fill_graph makes vertex_count add_node calls, then
\* one add_edge(a-1, b-1, w) per row of the first edge_count rows, in input order,
\* none for the rows after them, and returns.
C9_CallSequence ==
    WellFormed =>
        /\ pc # "panicked"
        /\ Alive
        /\ Len(log) <= Len(ExpectedLog)
        /\ log = SubSeq(ExpectedLog, 1, Len(log))
        /\ pc = "done" => log = ExpectedLog /\ nodeCalls = vertex_count
                           /\ edgeCalls = edge_count

\* fill_graph has returned on an input with two nodes, an edge, and a row too many.
C9_Witness ==
    /\ pc = "done"
    /\ WellFormed
    /\ vertex_count >= 2
    /\ edge_count >= 1
    /\ Len(tail) > edge_count
    /\ log = ExpectedLog
    /\ log[Len(log)][2] # log[Len(log)][3]

\* ------------------------------------------------- C10
\* The cell (a, b) of a matrix.
Cell(g, a, b) == g.links[a * g.node_count + b + 1]

MatWellFormed(g) ==
    /\ Len(g.links) = g.node_count * g.node_count
    /\ \A a \in 0..(g.node_count - 1), b \in 0..(g.node_count - 1) :
         Cell(g, a, b) = Cell(g, b, a)

\* The row and the column of the node added last are 0.
NewNodeIsolated(g) ==
    \A a \in 0..(g.node_count - 1) :
        Cell(g, a, g.node_count - 1) = 0 /\ Cell(g, g.node_count - 1, a) = 0

\* C10: while no call has panicked, links has node_count^2 cells and is symmetric;
\* add_node leaves the new row and column 0 and edges() as it was, so every cell
\* of the old matrix keeps its value.
C10_MatrixWellFormed ==
    Alive =>
        /\ MatWellFormed(libMat)
        /\ MatWellFormed(mainMat)
        /\ lastCall.op = "add_node" =>
             /\ NewNodeIsolated(libMat)
             /\ NewNodeIsolated(mainMat)
             /\ LibMat_edges(libMat) = prevEdges.libMat
             /\ MainMat_edges(mainMat) = prevEdges.mainMat

\* A third node has been added to a matrix that holds an edge between two nodes.
C10_Witness ==
    /\ Alive
    /\ lastCall.op = "add_node"
    /\ nodeCalls >= 3
    /\ \E e \in LibMat_edges(libMat) : e[1] # e[2]
    /\ LibMat_edges(libMat) = prevEdges.libMat

====
